---- MODULE Spec2Model ----
(***************************************************************************)
(* The risk/reward box annotation engine of the chart overlay              *)
(* (frontend/src/components/ChartOverlay.js): the box collection and the   *)
(* selection owned by ChartOverlay, and the drag state owned by each       *)
(* mounted DrawingBox.  One action per event handler.  Pixel coordinates   *)
(* are integers (clientX / clientY of mouse events).                       *)
(***************************************************************************)
EXTENDS Integers, Sequences, FiniteSets, TLC

\* ------------------------------------------------------------------ bounds
MaxOps == 4            \* box creations and pointer-downs in one run

\* ------------------------------------------------------- enumerated inputs
ClickXs == {100}                   \* clickX = e.clientX - rect.left
ClickYs == {5}                     \* clickY = e.clientY - rect.top
DownYs == {200}                    \* e.clientY of a mousedown
PointerYs == {130, 255}            \* e.clientY of a mousemove
ContainerHeights == {156, 500}     \* rect.height of the chart container
SmallContainerHeights == {80, 500} \* the same, for a chart squeezed to 80px

\* values of the calculator's input fields (e.target.value) and of its prop
EntryTexts == {<<"string">>, <<"string", 0>>, <<"string", 3>>, <<"string", 100>>}
StopTexts == {<<"string">>, <<"string", 0>>, <<"string", 2>>, <<"string", 98>>,
              <<"string", 100>>}
TargetTexts == {<<"string", 0>>, <<"string", 5>>, <<"string", 104>>}
AccountTexts == {<<"string", 0>>, <<"string", 10000>>}
RiskTexts == {<<"string", 0>>, <<"string", 2>>}
LeverageTexts == {<<"string">>, <<"string", 0>>, <<"string", 3>>, <<"string", 10>>,
                  <<"string", 300>>}
CurrentPrices == {0, 100}

\* fields of the coinData prop; 0 stands for a field that is 0 or missing
CoinCurrents == {0, 100}
CoinHighs == {0, 110}
CoinLows == {0, 90, 110}
CoinChanges == {-5, -2, 0, 2, 5}

\* --------------------------------------------------------------- constants
MinMargin == 20
MinSeparation == 10
defaultTPDistance == 50
defaultSLDistance == 30
DefaultWidth == 120
HalfWidth == 60
DuplicateOffset == 50
HeaderOffset == 56
FallbackHeight == 500
InitialContainerHeight == 500

\* a JavaScript null is the empty tuple, a present value v is <<v>>
Null == <<>>
Some(v) == <<v>>
NoDrag == "null"

Min(a, b) == IF a <= b THEN a ELSE b
Max(a, b) == IF a >= b THEN a ELSE b
Abs(a) == IF a >= 0 THEN a ELSE -a

VARIABLES
  boxes,            \* ChartOverlay state: sequence of box records
  selectedBoxId,    \* ChartOverlay state: Null or Some(id)
  comps,            \* one DrawingBox instance per entry of boxes
  orphans,          \* window listeners of instances that are no longer mounted
  isDrawingMode,    \* ChartSection state
  containerHeight,  \* ChartSection chartDimensions.height
  now,              \* the last reading Date.now() returned, 0 before the first
  ops,              \* box creations and pointer-downs so far
  form,             \* TradeCalculator state: the values held by useState
  currentPrice,     \* TradeCalculator prop currentPrice
  priceData,        \* ChartSection.priceData: Null or Some(record)
  smcIndicators     \* the smcIndicators prop: one boolean per toggle

\* the variables of the calculator form and of the SMC overlay
calcVars == <<form, currentPrice>>
smcVars == <<priceData, smcIndicators>>

vars == <<boxes, selectedBoxId, comps, orphans, isDrawingMode,
          containerHeight, now, ops, calcVars, smcVars>>

\* chartDimensions.height - 56, then `|| 500`
chartHeight ==
  IF containerHeight - HeaderOffset = 0 THEN FallbackHeight
  ELSE containerHeight - HeaderOffset

\* ------------------------------------------------- DrawingBox derivations
entryY(box) == box.entryY
tpY(box) == Min(box.tpY, box.slY)
slY(box) == Max(box.tpY, box.slY)
height(box) == Abs(slY(box) - tpY(box))
entryFromTop(box) == entryY(box) - tpY(box)
tpDistance(box) == Abs(entryY(box) - tpY(box))
slDistance(box) == Abs(slY(box) - entryY(box))
isLong(box) == box.tpY < box.entryY

\* heights of the two zone elements; a zone of no height takes no pointer-down
topZoneHeight(box) == entryFromTop(box)
bottomZoneHeight(box) == height(box) - entryFromTop(box) - 2

\* state of a freshly mounted DrawingBox: useState(null) three times, and no
\* listener on window yet
IdleComp ==
  [isDragging |-> NoDrag, dragStartY |-> Null, initialBox |-> Null, attached |-> FALSE]

\* an effect that returns no cleanup
HasCleanup_Never(comp) == FALSE

\* the effect returns its cleanup exactly when it attached the listeners
HasCleanup(comp) == comp.attached

\* useEffect of one DrawingBox after a render: the cleanup of the previous
\* run removes the listeners (the dependencies change on every render of the
\* list), then the effect attaches them again if isDragging is set
useEffect(old, new) ==
  [new EXCEPT !.attached = (old.attached /\ ~HasCleanup(old)) \/ (new.isDragging # NoDrag)]

Rerender(oldComps, newComps) ==
  [k \in DOMAIN newComps |-> useEffect(oldComps[k], newComps[k])]

\* unmounting runs the cleanup; what is left on window are the listeners of
\* unmounted instances whose effect had no cleanup
Unmount(cs, removed) ==
  Cardinality({k \in removed : cs[k].attached /\ ~HasCleanup(cs[k])})

\* ----------------------------------------------------- JavaScript numbers
\* A number is a fraction n/d in lowest terms with d > 0; d = 0 stands for the
\* values that are not finite: 1/0 is Infinity, -1/0 is -Infinity, 0/0 is NaN.
Sign(a) == IF a > 0 THEN 1 ELSE IF a < 0 THEN -1 ELSE 0

RECURSIVE GCD(_, _)
GCD(a, b) == IF b = 0 THEN a ELSE GCD(b, a % b)

Q(n, d) ==
  IF d = 0 THEN [n |-> Sign(n), d |-> 0]
  ELSE LET g == GCD(Abs(n), Abs(d))
       IN [n |-> Sign(d) * (n \div g), d |-> Abs(d) \div g]

NaN == [n |-> 0, d |-> 0]
Infinity == [n |-> 1, d |-> 0]
Zero == Q(0, 1)

isFinite(a) == a.d # 0
\* !a : 0 and NaN are the falsy numbers
Falsy(a) == a.n = 0
\* a > 0 (false for NaN)
Positive(a) == a.n > 0

Neg(a) == [n |-> -a.n, d |-> a.d]
MathAbs(a) == [n |-> Abs(a.n), d |-> a.d]
Add(a, b) ==
  IF a.d = 0 /\ b.d = 0 THEN (IF a.n = b.n THEN a ELSE NaN)
  ELSE Q(a.n * b.d + b.n * a.d, a.d * b.d)
Sub(a, b) == Add(a, Neg(b))
Mul(a, b) == Q(a.n * b.n, a.d * b.d)
Inv(a) ==
  IF a.d = 0 THEN (IF a.n = 0 THEN NaN ELSE Zero)
  ELSE IF a.n = 0 THEN Infinity
  ELSE Q(a.d, a.n)
\* a / b : a division by zero gives Infinity, -Infinity or NaN, never an error
Div(a, b) == Mul(a, Inv(b))

\* long division of r/d (0 <= r < d) to k decimal digits:
\* <<floor(r * 10^k / d), the remainder>>
RECURSIVE FracDigits(_, _, _)
FracDigits(r, d, k) ==
  IF k = 0 THEN <<0, r>>
  ELSE LET prev == FracDigits(r, d, k - 1)
           t == prev[2] * 10
       IN <<prev[1] * 10 + (t \div d), t % d>>

\* Number.prototype.toFixed(digits), as the number its decimal string denotes:
\* the nearest multiple of 10^-digits, a tie rounded away from zero; a value
\* that is not finite is formatted as "NaN" or "Infinity" and stays as it is
toFixed(a, digits) ==
  IF a.d = 0 THEN a
  ELSE LET scale == 10 ^ digits
           whole == Abs(a.n) \div a.d
           frac == FracDigits(Abs(a.n) % a.d, a.d, digits)
           m == whole * scale + frac[1] + (IF 2 * frac[2] >= a.d THEN 1 ELSE 0)
       IN Q(Sign(a.n) * m, scale)

\* Math.round: the nearest integer, a tie rounded up
MathRound(a) ==
  IF a.d = 0 THEN a ELSE Q((2 * a.n + a.d) \div (2 * a.d), 1)

\* --------------------------------------------------------- TradeCalculator
\* a state value of the form is a number (the useState default, or a price
\* set by the effect) or the string an <input type="number"> reports: the
\* text of a number, or "" for an empty or invalid field
Number(a) == <<"number", a>>
Text(a) == <<"string", a>>
EmptyText == <<"string">>

\* parseFloat of a state value; "" parses to NaN
parseFloat(v) == IF Len(v) = 2 THEN v[2] ELSE NaN

\* x || dflt
OrElse(x, dflt) == IF Falsy(x) THEN dflt ELSE x

\* useState defaults with the default prop currentPrice = 0
InitialForm ==
  [tradeType |-> "long",
   accountSize |-> Number(Q(10000, 1)),
   riskPercent |-> Number(Q(2, 1)),
   leverage |-> Number(Q(10, 1)),
   entryPrice |-> Number(Zero),
   stopLoss |-> Number(Zero),
   takeProfit |-> Number(Zero)]

entry(f) == OrElse(parseFloat(f.entryPrice), Zero)
sl(f) == OrElse(parseFloat(f.stopLoss), Zero)
tp(f) == OrElse(parseFloat(f.takeProfit), Zero)
account(f) == OrElse(parseFloat(f.accountSize), Zero)
risk(f) == OrElse(parseFloat(f.riskPercent), Zero)
\* a leverage that falls back to 0 like the other fields
lev_ZeroDefault(f) == OrElse(parseFloat(f.leverage), Zero)

lev(f) == OrElse(parseFloat(f.leverage), Q(1, 1))

\* a guard that tests the entry only
NoCalculation_EntryOnly(f) == Falsy(entry(f))

\* if (!entry || !sl) return null
NoCalculation(f) == Falsy(entry(f)) \/ Falsy(sl(f))

tradeSlDistance(f) == MathAbs(Sub(entry(f), sl(f)))
tradeTpDistance(f) == MathAbs(Sub(tp(f), entry(f)))
slPercent(f) == Mul(Div(tradeSlDistance(f), entry(f)), Q(100, 1))
tpPercent(f) == Mul(Div(tradeTpDistance(f), entry(f)), Q(100, 1))

\* the ratio with no test of the stop distance
rrRatio_Unguarded(f) == Div(tradeTpDistance(f), tradeSlDistance(f))

rrRatio(f) ==
  IF Positive(tradeSlDistance(f))
  THEN Div(tradeTpDistance(f), tradeSlDistance(f)) ELSE Zero

\* the risk percent taken as a fraction already
riskAmount_NoPercent(f) == Mul(account(f), risk(f))

riskAmount(f) == Div(Mul(account(f), risk(f)), Q(100, 1))

positionSize(f) ==
  IF Positive(slPercent(f))
  THEN Div(riskAmount(f), Div(slPercent(f), Q(100, 1))) ELSE Zero

positionSizeWithLeverage(f) == Div(positionSize(f), lev(f))

potentialLoss(f) == riskAmount(f)
potentialProfit(f) == Mul(riskAmount(f), rrRatio(f))

quantity(f) ==
  IF Positive(entry(f)) THEN Div(positionSizeWithLeverage(f), entry(f)) ELSE Zero

maintenanceMargin == Q(1, 2)
liquidationDistance(f) == Sub(Div(Q(100, 1), lev(f)), maintenanceMargin)
liquidationPrice(f) ==
  IF f.tradeType = "long"
  THEN Mul(entry(f), Sub(Q(1, 1), Div(liquidationDistance(f), Q(100, 1))))
  ELSE Mul(entry(f), Add(Q(1, 1), Div(liquidationDistance(f), Q(100, 1))))

\* the useMemo value: Null, or Some(record of the formatted metrics)
calculations(f) ==
  IF NoCalculation(f) THEN Null
  ELSE Some([slPercent |-> toFixed(slPercent(f), 2),
             tpPercent |-> toFixed(tpPercent(f), 2),
             rrRatio |-> toFixed(rrRatio(f), 2),
             riskAmount |-> toFixed(riskAmount(f), 2),
             positionSize |-> toFixed(positionSize(f), 2),
             positionSizeWithLeverage |-> toFixed(positionSizeWithLeverage(f), 2),
             potentialLoss |-> toFixed(potentialLoss(f), 2),
             potentialProfit |-> toFixed(potentialProfit(f), 2),
             quantity |-> toFixed(quantity(f), 6),
             liquidationPrice |-> toFixed(liquidationPrice(f), 2)])

\* ------------------------------------------------- DrawingBox: what is shown
\* the ratio formatted with no test of the denominator
rr_Unguarded(box) ==
  Text(toFixed(Div(Q(tpDistance(box), 1), Q(slDistance(box), 1)), 1))

\* the string shown after "R:R": toFixed(1) of the ratio, or the literal '0'
rr(box) ==
  IF slDistance(box) > 0
  THEN Text(toFixed(Div(Q(tpDistance(box), 1), Q(slDistance(box), 1)), 1))
  ELSE Text(Zero)

\* the text of the two zone spans: a fixed word, then an arrow chosen by isLong
topZoneLabel(box) == <<"TP", IF isLong(box) THEN "up" ELSE "down">>
bottomZoneLabel(box) == <<"SL", IF isLong(box) THEN "down" ELSE "up">>

\* ---------------------------------------------------------------- SMCOverlay
\* useState of smcIndicators in ChartSection: every toggle off
InitialIndicators ==
  [pdhl |-> FALSE, liquidity |-> FALSE, fvg |-> FALSE, breakers |-> FALSE,
   swings |-> FALSE]

\* ChartSection.priceData: null without coinData, else each field `|| 0`
\* (a missing field of coinData is read as NaN here, which `|| 0` replaces)
priceDataOf(coinData) ==
  IF coinData = Null THEN Null
  ELSE Some([current |-> OrElse(coinData[1].current_price, Zero),
             high24h |-> OrElse(coinData[1].high_24h, Zero),
             low24h |-> OrElse(coinData[1].low_24h, Zero),
             change24h |-> OrElse(coinData[1].price_change_percentage_24h, Zero)])

priceRange(pd) == Sub(pd.high24h, pd.low24h)

\* the mapping with no test of the range
priceToY_NoMidpoint(price, pd, H) ==
  Add(Mul(H, Q(1, 10)),
      Mul(Div(Sub(pd.high24h, price), priceRange(pd)), Mul(H, Q(8, 10))))

\* SMCOverlay.priceToY for the snapshot pd and the height H
priceToY(price, pd, H) ==
  IF priceRange(pd) = Zero THEN Div(H, Q(2, 1))
  ELSE LET percent == Div(Sub(pd.high24h, price), priceRange(pd))
           paddedHeight == Mul(H, Q(8, 10))
           offset == Mul(H, Q(1, 10))
       IN Add(offset, Mul(percent, paddedHeight))

\* Math.max of two finite numbers
MathMax(a, b) == IF Positive(Sub(a, b)) THEN a ELSE b
MathMin(a, b) == IF Positive(Sub(a, b)) THEN b ELSE a

\* one pushed element: its key, its style.top and its style.height (Null when
\* the style sets no height)
Primitive(key, top, h) == [key |-> key, top |-> top, height |-> h]

pdhlOverlays(pd, H) ==
  <<Primitive("pdh", priceToY(pd.high24h, pd, H), Null),
    Primitive("pdl", priceToY(pd.low24h, pd, H), Null),
    Primitive("us-open", Zero, Null),
    Primitive("us-close", Zero, Null)>>

liquidityOverlays(pd, H) ==
  LET liqHighY == priceToY(Mul(pd.high24h, Q(1005, 1000)), pd, H)
      liqLowY == priceToY(Mul(pd.low24h, Q(995, 1000)), pd, H)
      midY == priceToY(Div(Add(pd.high24h, pd.low24h), Q(2, 1)), pd, H)
  IN <<Primitive("liq-high", MathMax(Zero, Sub(liqHighY, Q(20, 1))), Q(25, 1)),
       Primitive("liq-low", liqLowY, Q(25, 1)),
       Primitive("liq-mid", Sub(midY, Q(10, 1)), Q(20, 1))>>

\* a threshold that lets a change of exactly 2 percent through
fvgOverlays_AtLeastTwo(pd, H) ==
  IF ~Positive(Sub(Q(2, 1), MathAbs(pd.change24h)))
  THEN <<Primitive("fvg-1", Zero, Zero), Primitive("fvg-2", Zero, Zero)>>
  ELSE <<>>

fvgOverlays(pd, H) ==
  IF Positive(Sub(MathAbs(pd.change24h), Q(2, 1)))
  THEN LET fvgMidPrice ==
             Mul(pd.current, Sub(Q(1, 1), Div(pd.change24h, Q(200, 1))))
           fvgY == priceToY(fvgMidPrice, pd, H)
           fvgHeight == MathMin(Mul(MathAbs(pd.change24h), Q(2, 1)), Q(35, 1))
           fvg2Price ==
             Mul(pd.current, Sub(Q(1, 1), Div(pd.change24h, Q(400, 1))))
           fvg2Y == priceToY(fvg2Price, pd, H)
       IN <<Primitive("fvg-1", Sub(fvgY, Div(fvgHeight, Q(2, 1))), fvgHeight),
            Primitive("fvg-2", Sub(fvg2Y, Div(fvgHeight, Q(3, 1))),
                      Mul(fvgHeight, Q(6, 10)))>>
  ELSE <<>>

breakerOverlays(pd, H) ==
  LET breakerPrice ==
        Mul(pd.current,
            Add(Q(1, 1), IF Positive(pd.change24h) THEN Q(-3, 100) ELSE Q(3, 100)))
      breakerY == priceToY(breakerPrice, pd, H)
  IN <<Primitive("breaker", Sub(breakerY, Q(20, 1)), Q(40, 1))>>

swingsOverlays(pd, H) ==
  LET swingHighY == priceToY(Mul(pd.high24h, Q(998, 1000)), pd, H)
      swingLowY == priceToY(Mul(pd.low24h, Q(1002, 1000)), pd, H)
      hlY == priceToY(Mul(pd.low24h, Q(102, 100)), pd, H)
  IN <<Primitive("swing-hh-1", Sub(swingHighY, Q(25, 1)), Null),
       Primitive("swing-hh-2", Sub(swingHighY, Q(20, 1)), Null),
       Primitive("swing-hl", hlY, Null),
       Primitive("swing-ll", swingLowY, Null),
       Primitive("structure-label", Q(10, 1), Null)>>

\* if (!priceData || !priceData.current) return null
SkipsRender(pd) == pd = Null \/ Falsy(pd[1].current)

\* the SMCOverlay component: Null, or Some(the overlays array)
SMCOverlay(indicators, H, pd) ==
  IF SkipsRender(pd) THEN Null
  ELSE Some((IF indicators.pdhl THEN pdhlOverlays(pd[1], H) ELSE <<>>)
            \o (IF indicators.liquidity THEN liquidityOverlays(pd[1], H) ELSE <<>>)
            \o (IF indicators.fvg THEN fvgOverlays(pd[1], H) ELSE <<>>)
            \o (IF indicators.breakers THEN breakerOverlays(pd[1], H) ELSE <<>>)
            \o (IF indicators.swings THEN swingsOverlays(pd[1], H) ELSE <<>>))

hasActiveSMC(indicators) == \E k \in DOMAIN indicators : indicators[k]

\* what ChartOverlay renders of the SMC overlay: the elements on screen
smcOverlays ==
  LET rendered == IF hasActiveSMC(smcIndicators)
                  THEN SMCOverlay(smcIndicators, Q(chartHeight, 1), priceData)
                  ELSE Null
  IN IF rendered = Null THEN <<>> ELSE rendered[1]

\* ------------------------------------------------------------ ChartOverlay
\* The readings Date.now() can return when a box is created.  Ids are only
\* ever compared for equality, so the readings are numbered in the order
\* they are taken: the clock still shows the last reading, or it has advanced
\* and shows the next one.
DateNow ==
  (IF now > 0 THEN {now} ELSE {}) \cup {now + 1}

\* a hit test that compares clickX with the left edge only
clickedOnBox_NoWidth(clickX, clickY) ==
  \E k \in DOMAIN boxes :
    LET box == boxes[k]
        boxTop == Min(box.tpY, box.slY)
        boxBottom == Max(box.tpY, box.slY)
    IN /\ clickY >= boxTop /\ clickY <= boxBottom
       /\ clickX >= box.x /\ clickX <= box.x

clickedOnBox(clickX, clickY) ==
  \E k \in DOMAIN boxes :
    LET box == boxes[k]
        boxTop == Min(box.tpY, box.slY)
        boxBottom == Max(box.tpY, box.slY)
    IN /\ clickY >= boxTop /\ clickY <= boxBottom
       /\ clickX >= box.x /\ clickX <= box.x + box.width

updateBox(prev, updatedBox) ==
  [k \in DOMAIN prev |-> IF prev[k].id = updatedBox.id THEN updatedBox ELSE prev[k]]

KeepIdx(prev, boxId) == {k \in DOMAIN prev : prev[k].id # boxId}

RECURSIVE FilterSeq(_, _, _)
FilterSeq(s, keep, k) ==
  IF k > Len(s) THEN <<>>
  ELSE (IF k \in keep THEN <<s[k]>> ELSE <<>>) \o FilterSeq(s, keep, k + 1)

\* a filter that keeps no box at all
deleteBoxFilter_DropsAll(prev, boxId) == <<>>

\* deleteBox: prev.filter(b => b.id !== boxId)
deleteBoxFilter(prev, boxId) == FilterSeq(prev, KeepIdx(prev, boxId), 1)

\* a deleteBox that leaves the selection as it is
deleteBoxSelection_Keeps(selected, boxId) == selected

\* deleteBox: if (selectedBoxId === boxId) setSelectedBoxId(null)
deleteBoxSelection(selected, boxId) ==
  IF selected = Some(boxId) THEN Null ELSE selected

Init ==
  /\ boxes = <<>>
  /\ selectedBoxId = Null
  /\ comps = <<>>
  /\ orphans = 0
  /\ isDrawingMode = FALSE
  /\ containerHeight = InitialContainerHeight
  /\ now = 0
  /\ ops = 0
  /\ form = InitialForm
  /\ currentPrice = Q(0, 1)
  /\ priceData = Null
  /\ smcIndicators = InitialIndicators

\* ChartSection.updateDimensions (resize event or the 1 s interval)
updateDimensions(h) ==
  /\ h # containerHeight
  /\ containerHeight' = h
  /\ UNCHANGED <<boxes, selectedBoxId, comps, orphans, isDrawingMode, now, ops, calcVars, smcVars>>

\* onToggleDrawing: setIsDrawingMode(!isDrawingMode)
ToggleDrawing ==
  /\ isDrawingMode' = ~isDrawingMode
  /\ UNCHANGED <<boxes, selectedBoxId, comps, orphans, containerHeight, now, ops, calcVars, smcVars>>

\* a click handler that creates the box whatever the drawing mode is
handleOverlayClick_IgnoresMode(clickX, clickY) ==
  \E t \in DateNow :
    /\ ops < MaxOps
    /\ boxes' = Append(boxes, [id |-> t, x |-> clickX - HalfWidth,
                               width |-> DefaultWidth, entryY |-> clickY,
                               tpY |-> clickY - defaultTPDistance,
                               slY |-> clickY + defaultSLDistance])
    /\ selectedBoxId' = Some(t)
    /\ comps' = Append(Rerender(comps, comps), IdleComp)
    /\ now' = t
    /\ ops' = ops + 1
    /\ UNCHANGED <<orphans, isDrawingMode, containerHeight, calcVars, smcVars>>

\* handleOverlayClick with e.target the overlay element, and handleClick
handleOverlayClick(clickX, clickY) ==
  IF ~isDrawingMode
  THEN /\ selectedBoxId' = Null
       /\ UNCHANGED <<boxes, comps, orphans, isDrawingMode, containerHeight, now, ops, calcVars, smcVars>>
  ELSE IF clickedOnBox(clickX, clickY)
  THEN UNCHANGED vars
  ELSE \E t \in DateNow :
       LET newBox == [id |-> t,
                      x |-> clickX - HalfWidth,
                      width |-> DefaultWidth,
                      entryY |-> clickY,
                      tpY |-> clickY - defaultTPDistance,
                      slY |-> clickY + defaultSLDistance]
       IN /\ ops < MaxOps
          /\ boxes' = Append(boxes, newBox)
          /\ selectedBoxId' = Some(newBox.id)
          /\ comps' = Append(Rerender(comps, comps), IdleComp)
          /\ now' = t
          /\ ops' = ops + 1
          /\ UNCHANGED <<orphans, isDrawingMode, containerHeight, calcVars, smcVars>>

\* box click (line 73): onSelect(box.id)
onSelect(i) ==
  /\ i \in DOMAIN boxes
  /\ selectedBoxId' = Some(boxes[i].id)
  /\ comps' = Rerender(comps, comps)
  /\ UNCHANGED <<boxes, orphans, isDrawingMode, containerHeight, now, ops, calcVars, smcVars>>

\* the zone element under a pointer-down of the given type has a height
ZoneTakesPointer(box, type) ==
  CASE type = "top" -> topZoneHeight(box) > 0
    [] type = "bottom" -> bottomZoneHeight(box) > 0
    [] OTHER -> TRUE

\* DrawingBox.handleMouseDown; only differences of clientY are ever used
handleMouseDown(i, type, clientY) ==
  /\ i \in DOMAIN boxes
  /\ ops < MaxOps
  /\ ZoneTakesPointer(boxes[i], type)
  /\ selectedBoxId' = Some(boxes[i].id)
  /\ comps' = Rerender(comps,
                [comps EXCEPT ![i].isDragging = type,
                              ![i].dragStartY = Some(clientY),
                              ![i].initialBox = Some(boxes[i])])
  /\ ops' = ops + 1
  /\ UNCHANGED <<boxes, orphans, isDrawingMode, containerHeight, now, calcVars, smcVars>>

\* the guard of DrawingBox.handleMouseMove (boxRef.current is set while mounted)
MoveGuardPasses(comp) ==
  ~(comp.isDragging = NoDrag \/ comp.initialBox = Null \/ comp.dragStartY = Null)

\* the box handleMouseMove passes to onUpdate; box is the prop of the last render
MovedBox(comp, box, H, clientY) ==
  LET deltaY == clientY - comp.dragStartY[1]
      initialBox == comp.initialBox[1]
  IN IF comp.isDragging = "move"
     THEN [box EXCEPT
             !.entryY = Max(MinMargin, Min(initialBox.entryY + deltaY, H - MinMargin)),
             !.tpY = initialBox.tpY + deltaY,
             !.slY = initialBox.slY + deltaY]
     ELSE IF comp.isDragging = "top"
     THEN [box EXCEPT
             !.tpY = Max(0, Min(initialBox.tpY + deltaY, box.entryY - MinSeparation))]
     ELSE IF comp.isDragging = "bottom"
     THEN [box EXCEPT
             !.slY = Max(box.entryY + MinSeparation, Min(initialBox.slY + deltaY, H))]
     ELSE box

\* a handler that tests the element ref only and falls through to the
\* bottom branch, resizing from the live box
handleMouseMove_NoGuard(i, clientY, prev) ==
  IF MoveGuardPasses(comps[i])
  THEN updateBox(prev, MovedBox(comps[i], boxes[i], chartHeight, clientY))
  ELSE updateBox(prev,
         [boxes[i] EXCEPT
            !.slY = Max(boxes[i].entryY + MinSeparation,
                        Min(boxes[i].slY + clientY, chartHeight))])

\* DrawingBox.handleMouseMove of instance i applied to the pending collection prev
handleMouseMove(i, clientY, prev) ==
  IF ~MoveGuardPasses(comps[i]) THEN prev
  ELSE updateBox(prev, MovedBox(comps[i], boxes[i], chartHeight, clientY))

\* a mousemove on window runs the listener of every attached instance; the
\* effects re-attach on every render of the list, so they run in list order
RECURSIVE DeliverMove(_, _, _)
DeliverMove(i, clientY, prev) ==
  IF i > Len(comps) THEN prev
  ELSE DeliverMove(i + 1, clientY,
                   IF comps[i].attached
                   THEN handleMouseMove(i, clientY, prev) ELSE prev)

MouseMove(clientY) ==
  /\ boxes' = DeliverMove(1, clientY, boxes)
  /\ comps' = Rerender(comps, comps)
  /\ UNCHANGED <<selectedBoxId, orphans, isDrawingMode, containerHeight, now, ops, calcVars, smcVars>>

\* a handler that clears the mode and keeps the anchor and the snapshot
handleMouseUp_KeepsSnapshot(comp) ==
  [comp EXCEPT !.isDragging = NoDrag]

\* DrawingBox.handleMouseUp
handleMouseUp(comp) ==
  [comp EXCEPT !.isDragging = NoDrag, !.dragStartY = Null, !.initialBox = Null]

\* a mouseup on window runs handleMouseUp of every attached instance
MouseUp ==
  /\ \E k \in DOMAIN comps : comps[k].attached
  /\ comps' = Rerender(comps,
                [k \in DOMAIN comps |->
                   IF comps[k].attached THEN handleMouseUp(comps[k]) ELSE comps[k]])
  /\ UNCHANGED <<boxes, selectedBoxId, orphans, isDrawingMode, containerHeight,
                 now, ops, calcVars, smcVars>>

\* the action buttons are rendered only on the selected box
isSelected(i) == selectedBoxId = Some(boxes[i].id)

\* delete button of box i: onDelete(box.id)
deleteBox(i) ==
  /\ i \in DOMAIN boxes
  /\ isSelected(i)
  /\ LET boxId == boxes[i].id
         keep == KeepIdx(boxes, boxId)
     IN /\ boxes' = deleteBoxFilter(boxes, boxId)
        /\ selectedBoxId' = deleteBoxSelection(selectedBoxId, boxId)
        /\ comps' = FilterSeq(Rerender(comps, comps), keep, 1)
        /\ orphans' = orphans + Unmount(comps, DOMAIN comps \ keep)
  /\ UNCHANGED <<isDrawingMode, containerHeight, now, ops, calcVars, smcVars>>

clearAllBoxes ==
  /\ boxes # <<>>
  /\ boxes' = <<>>
  /\ selectedBoxId' = Null
  /\ comps' = <<>>
  /\ orphans' = orphans + Unmount(comps, DOMAIN comps)
  /\ UNCHANGED <<isDrawingMode, containerHeight, now, ops, calcVars, smcVars>>

\* duplicate button of box i: onDuplicate(box)
duplicateBox(i) ==
  /\ i \in DOMAIN boxes
  /\ isSelected(i)
  /\ ops < MaxOps
  /\ \E t \in DateNow :
     LET newBox == [boxes[i] EXCEPT !.id = t, !.x = boxes[i].x + DuplicateOffset]
     IN /\ boxes' = Append(boxes, newBox)
        /\ selectedBoxId' = Some(newBox.id)
        /\ comps' = Append(Rerender(comps, comps), IdleComp)
        /\ now' = t
        /\ ops' = ops + 1
  /\ UNCHANGED <<orphans, isDrawingMode, containerHeight, calcVars, smcVars>>

DragTypes == {"move", "top", "bottom"}

Next ==
  \/ \E h \in ContainerHeights : updateDimensions(h)
  \/ ToggleDrawing
  \/ \E clickX \in ClickXs, clickY \in ClickYs : handleOverlayClick(clickX, clickY)
  \/ \E i \in DOMAIN boxes : onSelect(i)
  \/ \E i \in DOMAIN boxes, type \in DragTypes, clientY \in DownYs :
       handleMouseDown(i, type, clientY)
  \/ \E clientY \in PointerYs : MouseMove(clientY)
  \/ MouseUp
  \/ \E i \in DOMAIN boxes : deleteBox(i)
  \/ clearAllBoxes
  \/ \E i \in DOMAIN boxes : duplicateBox(i)

Spec == Init /\ [][Next]_vars

\* the same handlers on a page whose chart container shrinks to 80px
SmallCanvasNext ==
  \/ \E h \in SmallContainerHeights : updateDimensions(h)
  \/ ToggleDrawing
  \/ \E clickX \in ClickXs, clickY \in ClickYs : handleOverlayClick(clickX, clickY)
  \/ \E i \in DOMAIN boxes : onSelect(i)
  \/ \E i \in DOMAIN boxes, type \in DragTypes, clientY \in DownYs :
       handleMouseDown(i, type, clientY)
  \/ \E clientY \in PointerYs : MouseMove(clientY)
  \/ MouseUp
  \/ \E i \in DOMAIN boxes : deleteBox(i)
  \/ clearAllBoxes
  \/ \E i \in DOMAIN boxes : duplicateBox(i)

SmallCanvasSpec == Init /\ [][SmallCanvasNext]_vars

\* ------------------------------------------------- TradeCalculator: actions
\* the text an input field reports, with its number as a fraction
FieldValue(t) == IF Len(t) = 2 THEN Text(Q(t[2], 1)) ELSE EmptyText

\* onChange of one input: setX(e.target.value)
onChange(field, t) ==
  /\ form' = [form EXCEPT ![field] = FieldValue(t)]
  /\ form' # form
  /\ UNCHANGED <<boxes, selectedBoxId, comps, orphans, isDrawingMode,
                 containerHeight, now, ops, currentPrice, smcVars>>

\* the Long / Short buttons
setTradeType(t) ==
  /\ t # form.tradeType
  /\ form' = [form EXCEPT !.tradeType = t]
  /\ UNCHANGED <<boxes, selectedBoxId, comps, orphans, isDrawingMode,
                 containerHeight, now, ops, currentPrice, smcVars>>

\* Math.round(x * 100) / 100
RoundCents(x) == Div(MathRound(Mul(x, Q(100, 1))), Q(100, 1))

\* the effect on [currentPrice]: fills entry, stop and target from the price
\* while entryPrice is still the number 0
AutoFill(f, price) ==
  IF Falsy(price) \/ f.entryPrice # Number(Zero) THEN f
  ELSE LET slDist == Mul(price, Q(2, 100))
       IN IF f.tradeType = "long"
          THEN [f EXCEPT !.entryPrice = Number(price),
                         !.stopLoss = Number(RoundCents(Sub(price, slDist))),
                         !.takeProfit =
                            Number(RoundCents(Add(price, Mul(slDist, Q(2, 1)))))]
          ELSE [f EXCEPT !.entryPrice = Number(price),
                         !.stopLoss = Number(RoundCents(Add(price, slDist))),
                         !.takeProfit =
                            Number(RoundCents(Sub(price, Mul(slDist, Q(2, 1)))))]

\* the parent renders the calculator with a new currentPrice
priceChange(p) ==
  /\ Q(p, 1) # currentPrice
  /\ currentPrice' = Q(p, 1)
  /\ form' = AutoFill(form, Q(p, 1))
  /\ UNCHANGED <<boxes, selectedBoxId, comps, orphans, isDrawingMode,
                 containerHeight, now, ops, smcVars>>

CalcNext ==
  \/ \E t \in EntryTexts : onChange("entryPrice", t)
  \/ \E t \in StopTexts : onChange("stopLoss", t)
  \/ \E t \in TargetTexts : onChange("takeProfit", t)
  \/ \E t \in AccountTexts : onChange("accountSize", t)
  \/ \E t \in RiskTexts : onChange("riskPercent", t)
  \/ \E t \in LeverageTexts : onChange("leverage", t)
  \/ \E t \in {"long", "short"} : setTradeType(t)
  \/ \E p \in CurrentPrices : priceChange(p)

CalcSpec == Init /\ [][CalcNext]_vars

\* ------------------------------------------------------ SMCOverlay: actions
\* ChartSection is rendered with new coinData; the priceData memo follows
setCoinData(current, high, low, change) ==
  LET coinData == Some([current_price |-> Q(current, 1),
                        high_24h |-> Q(high, 1),
                        low_24h |-> Q(low, 1),
                        price_change_percentage_24h |-> Q(change, 1)])
  IN /\ priceData' = priceDataOf(coinData)
     /\ priceData' # priceData
     /\ UNCHANGED <<boxes, selectedBoxId, comps, orphans, isDrawingMode,
                    containerHeight, now, ops, calcVars, smcIndicators>>

\* ChartSection.handleToggleSMC
handleToggleSMC(indicatorId) ==
  /\ smcIndicators' = [smcIndicators EXCEPT ![indicatorId] = ~smcIndicators[indicatorId]]
  /\ UNCHANGED <<boxes, selectedBoxId, comps, orphans, isDrawingMode,
                 containerHeight, now, ops, calcVars, priceData>>

SmcNext ==
  \/ \E current \in CoinCurrents, high \in CoinHighs, low \in CoinLows,
        change \in CoinChanges : setCoinData(current, high, low, change)
  \/ \E indicatorId \in DOMAIN InitialIndicators : handleToggleSMC(indicatorId)
  \/ \E h \in ContainerHeights : updateDimensions(h)

SmcSpec == Init /\ [][SmcNext]_vars

\* ---------------------------------------------------------------- claims
\* the ratio |entryY - min(tpY,slY)| / |max(tpY,slY) - entryY| of two boxes
\* compared as fractions; a zero denominator only equals a zero denominator
SameRatio(a, b) ==
  \/ slDistance(a) = 0 /\ slDistance(b) = 0
  \/ /\ slDistance(a) > 0 /\ slDistance(b) > 0
     /\ tpDistance(a) * slDistance(b) = tpDistance(b) * slDistance(a)

Dragging(mode) == {i \in DOMAIN comps : comps[i].isDragging = mode}

\* C1: after every pointer-move of a Move drag the box has the risk/reward
\* ratio it had at drag start.
C1_MoveKeepsRatio ==
  [][\A y \in PointerYs : MouseMove(y) =>
       \A i \in Dragging("move") : SameRatio(boxes'[i], comps[i].initialBox[1])]_vars

\* C2: after every pointer-move of a Move drag the three edges are displaced
\* from their drag-start values by one common amount, which is the pointer
\* displacement when the entry edge is not at a canvas margin.
C2_MoveTranslatesRigidly ==
  [][\A y \in PointerYs : MouseMove(y) =>
       \A i \in Dragging("move") :
         LET b0 == comps[i].initialBox[1]
             b1 == boxes'[i]
             d == b1.entryY - b0.entryY
         IN /\ b1.tpY - b0.tpY = d
            /\ b1.slY - b0.slY = d
            /\ (b1.entryY # MinMargin /\ b1.entryY # chartHeight - MinMargin)
                 => d = y - comps[i].dragStartY[1]]_vars

\* C3: after every pointer-move of a ResizeTop drag the target edge is at
\* least 10px above the entry edge.
C3_TopKeepsSeparation ==
  [][\A y \in PointerYs : MouseMove(y) =>
       \A i \in Dragging("top") :
         boxes'[i].tpY <= boxes'[i].entryY - MinSeparation]_vars

\* C4: after every pointer-move of a ResizeBottom drag the stop edge is at
\* least 10px below the entry edge.
C4_BottomKeepsSeparation ==
  [][\A y \in PointerYs : MouseMove(y) =>
       \A i \in Dragging("bottom") :
         boxes'[i].slY >= boxes'[i].entryY + MinSeparation]_vars

\* C5: no box ever has its target or stop edge on its entry edge.
C5_NoCollapsedEdge ==
  \A i \in DOMAIN boxes :
    boxes[i].tpY # boxes[i].entryY /\ boxes[i].slY # boxes[i].entryY

\* C7: the ids of the boxes in the collection are pairwise distinct.
C7_IdsDistinct ==
  \A i, j \in DOMAIN boxes : i # j => boxes[i].id # boxes[j].id

\* C8: when drawing mode is switched off every drag is reset to Idle.
C8_LeavingDrawingCancelsDrag ==
  [][(isDrawingMode /\ ~isDrawingMode') =>
       \A i \in DOMAIN comps' : comps'[i].isDragging = NoDrag]_vars
\* the bounding rectangle [x, x+width] x [min(tpY,slY), max(tpY,slY)] of a box
InRect(box, x, y) ==
  /\ y >= tpY(box) /\ y <= slY(box)
  /\ x >= box.x /\ x <= box.x + box.width

Overlap(a, b) ==
  /\ a.x <= b.x + b.width /\ b.x <= a.x + a.width
  /\ tpY(a) <= slY(b) /\ tpY(b) <= slY(a)

\* C6 as stated: in drawing mode a click inside the rectangle of an existing
\* box creates no box, and no click creates a box whose rectangle overlaps
\* the rectangle of an existing box.
C6_ClickNeverOverlaps ==
  [][\A x \in ClickXs, y \in ClickYs :
       (isDrawingMode /\ handleOverlayClick(x, y)) =>
         /\ (\E k \in DOMAIN boxes : InRect(boxes[k], x, y)) => boxes' = boxes
         /\ Len(boxes') > Len(boxes) =>
              \A k \in DOMAIN boxes : ~Overlap(boxes'[Len(boxes')], boxes[k])]_vars

\* C6 as amended: in drawing mode a click inside the rectangle of an existing
\* box creates no box and leaves the collection as it is.
C6_ClickInsideCreatesNothing ==
  [][\A x \in ClickXs, y \in ClickYs :
       (/\ isDrawingMode
        /\ \E k \in DOMAIN boxes : InRect(boxes[k], x, y)
        /\ handleOverlayClick(x, y)) => boxes' = boxes]_vars

\* drawing mode is on and an enumerated click point lies inside a box
C6_Witness ==
  /\ isDrawingMode
  /\ ops < MaxOps
  /\ \E x \in ClickXs, y \in ClickYs, k \in DOMAIN boxes : InRect(boxes[k], x, y)

\* C9: the window listeners of a box are attached exactly while the box is
\* dragging, and no listener of an unmounted box remains on window.
C9_ListenersIffDragging ==
  /\ \A i \in DOMAIN comps : comps[i].attached <=> comps[i].isDragging # NoDrag
  /\ orphans = 0

\* two drags were started; one box is dragging with its listeners attached
\* and another is idle with none
C9_Witness ==
  /\ ops > 1
  /\ \E i, j \in DOMAIN comps :
       /\ comps[i].attached /\ comps[i].isDragging # NoDrag
       /\ ~comps[j].attached /\ comps[j].isDragging = NoDrag

\* C10: handleMouseMove run on a box whose drag state is Idle (no mode, no
\* anchor or no start snapshot) returns the collection unchanged, for every
\* pointer position.
C10_IdleMoveIsNoop ==
  \A i \in DOMAIN comps :
    (comps[i].isDragging = NoDrag \/ comps[i].dragStartY = Null
       \/ comps[i].initialBox = Null)
      => \A y \in PointerYs : handleMouseMove(i, y, boxes) = boxes

\* a box is idle after a drag was started, while another box is still dragging
C10_Witness ==
  /\ ops > 0
  /\ \E i, j \in DOMAIN comps :
       comps[i].isDragging = NoDrag /\ comps[j].isDragging # NoDrag

\* ids a caller can pass to deleteBox: every reading taken so far, and readings
\* no box was ever given
BoxIds == 0..(MaxOps + 1)

UnknownIds == {boxId \in BoxIds : \A k \in DOMAIN boxes : boxes[k].id # boxId}

\* C11: deleting an id that no box of the collection has leaves the box
\* collection and the selected-box id as they were (and the evaluation of
\* deleteBox raises no error).
C11_DeleteUnknownIdIsNoop ==
  \A boxId \in UnknownIds :
    /\ deleteBoxFilter(boxes, boxId) = boxes
    /\ deleteBoxSelection(selectedBoxId, boxId) = selectedBoxId

\* a box is selected, and the id of a box deleted earlier is unknown now
C11_Witness ==
  /\ boxes # <<>>
  /\ selectedBoxId # Null
  /\ \E boxId \in 1..now : boxId \in UnknownIds

\* the reference formulas of the calculator over the numbers in the fields
\* (NaN for an empty field), with no guard and no default
RefMetrics(f) ==
  LET e == parseFloat(f.entryPrice)
      s == parseFloat(f.stopLoss)
      t == parseFloat(f.takeProfit)
      hundred == Q(100, 1)
      slDist == MathAbs(Sub(e, s))
      tpDist == MathAbs(Sub(t, e))
      slPct == Mul(Div(slDist, e), hundred)
      ratio == IF Positive(slDist) THEN Div(tpDist, slDist) ELSE Zero
      amount == Div(Mul(parseFloat(f.accountSize), parseFloat(f.riskPercent)), hundred)
      notional == IF Positive(slPct) THEN Div(amount, Div(slPct, hundred)) ELSE Zero
      leveraged == Div(notional, parseFloat(f.leverage))
  IN [slPct |-> slPct,
      tpPct |-> Mul(Div(tpDist, e), hundred),
      riskRewardRatio |-> ratio,
      riskAmount |-> amount,
      positionSizeNotional |-> notional,
      positionSizeLeveraged |-> leveraged,
      quantity |-> Div(leveraged, e),
      potentialLoss |-> amount,
      potentialProfit |-> Mul(amount, ratio)]

\* entry > 0 and stop > 0
ValidPrices(f) ==
  Positive(parseFloat(f.entryPrice)) /\ Positive(parseFloat(f.stopLoss))

\* every field holds a number, and the leverage is not 0
NumericInputs(f) ==
  /\ \A k \in {"entryPrice", "stopLoss", "takeProfit", "accountSize",
               "riskPercent", "leverage"} : Len(f[k]) = 2
  /\ ~Falsy(parseFloat(f.leverage))

\* the outputs of c are the reference metrics r formatted to digits decimals
\* (three times as many for the quantity); digits = -1 asks for the exact values
MatchesReference(c, r, digits) ==
  LET fmt(x, k) == IF digits < 0 THEN x ELSE toFixed(x, k)
  IN /\ c.slPercent = fmt(r.slPct, digits)
     /\ c.tpPercent = fmt(r.tpPct, digits)
     /\ c.rrRatio = fmt(r.riskRewardRatio, digits)
     /\ c.riskAmount = fmt(r.riskAmount, digits)
     /\ c.positionSize = fmt(r.positionSizeNotional, digits)
     /\ c.positionSizeWithLeverage = fmt(r.positionSizeLeveraged, digits)
     /\ c.quantity = fmt(r.quantity, 3 * digits)
     /\ c.potentialLoss = fmt(r.potentialLoss, digits)
     /\ c.potentialProfit = fmt(r.potentialProfit, digits)

\* C12 as stated: whenever entry > 0 and stop > 0 the calculator's outputs
\* equal the reference formulas.
C12_OutputsEqualReference ==
  LET c == calculations(form)
  IN ValidPrices(form) =>
       c # Null /\ MatchesReference(c[1], RefMetrics(form), -1)

\* C12 amended: whenever every field holds a number, entry > 0, stop > 0 and
\* leverage # 0, the calculator's outputs are the reference formulas formatted
\* with toFixed(2) (toFixed(6) for the quantity).
C12_OutputsEqualFormattedReference ==
  LET c == calculations(form)
  IN (ValidPrices(form) /\ NumericInputs(form)) =>
       c # Null /\ MatchesReference(c[1], RefMetrics(form), 2)

\* the inputs of the spec's example, giving slPct 2, tpPct 4, ratio 2,
\* riskAmount 200 and potentialProfit 400
C12_Witness ==
  LET c == calculations(form)
  IN /\ entry(form) = Q(100, 1) /\ sl(form) = Q(98, 1) /\ tp(form) = Q(104, 1)
     /\ account(form) = Q(10000, 1) /\ risk(form) = Q(2, 1)
     /\ lev(form) = Q(10, 1) /\ form.tradeType = "long"
     /\ c # Null
     /\ c[1].slPercent = Q(2, 1) /\ c[1].tpPercent = Q(4, 1)
     /\ c[1].rrRatio = Q(2, 1) /\ c[1].riskAmount = Q(200, 1)
     /\ c[1].potentialProfit = Q(400, 1)

\* entry == stop, both non-zero
EntryEqualsStop(f) == entry(f) = sl(f) /\ ~Falsy(entry(f))

MissingPrice(v) == Len(v) = 1 \/ parseFloat(v) = Zero

\* C14: when entry is 0 or unparsable, or stop is 0 or unparsable, the
\* calculator returns the "undefined" result (no metrics record), whatever the
\* other inputs are.
C14_MissingPriceGivesNoResult ==
  (MissingPrice(form.entryPrice) \/ MissingPrice(form.stopLoss)) =>
     calculations(form) = Null

\* a valid entry with an empty stop field, all other inputs set
C14_Witness ==
  /\ Positive(entry(form))
  /\ form.stopLoss = EmptyText
  /\ ~Falsy(tp(form)) /\ ~Falsy(account(form)) /\ ~Falsy(risk(form))
  /\ calculations(form) = Null

FvgPrimitives == {k \in DOMAIN smcOverlays : smcOverlays[k].key \in {"fvg-1", "fvg-2"}}

\* |change24h| > 2
BigChange(pd) == Positive(Sub(MathAbs(pd.change24h), Q(2, 1)))

\* C16 as stated: with the fvg toggle enabled there is no FVG primitive when
\* |change24hPct| <= 2 and there are exactly two when |change24hPct| > 2,
\* whatever the other toggles are.
C16_FvgFollowsChange ==
  (smcIndicators.fvg /\ priceData # Null) =>
    Cardinality(FvgPrimitives) = IF BigChange(priceData[1]) THEN 2 ELSE 0

\* C16 amended: the same, for a snapshot that has a current price.
C16_FvgFollowsChangeWithPrice ==
  (smcIndicators.fvg /\ ~SkipsRender(priceData)) =>
    Cardinality(FvgPrimitives) = IF BigChange(priceData[1]) THEN 2 ELSE 0

\* fvg is enabled next to other toggles, the change is exactly 2 or -2 and
\* nothing is tagged FVG although other primitives are on screen
C16_Witness ==
  /\ smcIndicators.fvg /\ smcIndicators.pdhl
  /\ ~SkipsRender(priceData)
  /\ MathAbs(priceData[1].change24h) = Q(2, 1)
  /\ FvgPrimitives = {}
  /\ smcOverlays # <<>>

\* keys of the primitives whose position is computed from a price
PriceDependentKeys ==
  {"pdh", "pdl", "liq-high", "liq-low", "liq-mid", "fvg-1", "fvg-2", "breaker",
   "swing-hh-1", "swing-hh-2", "swing-hl", "swing-ll"}

PriceDependentPrimitives ==
  {k \in DOMAIN smcOverlays : smcOverlays[k].key \in PriceDependentKeys}

\* current is present, high24h or low24h is missing or zero
LacksRange(pd) ==
  pd # Null /\ ~Falsy(pd[1].current) /\ (Falsy(pd[1].high24h) \/ Falsy(pd[1].low24h))

\* C17: when the snapshot lacks high24h or low24h while current is present,
\* no price-dependent primitive is emitted, whichever toggles are enabled.
C17_NoPrimitiveWithoutRange ==
  LacksRange(priceData) => PriceDependentPrimitives = {}

\* prices handed to priceToY, below, inside and above the 24h range
ProbePrices == {0, 50, 90, 100, 110, 200}

\* C18: when high24h = low24h, priceToY returns exactly chartHeight / 2 for
\* every input price, a finite number: nothing is divided by the zero range.
C18_FlatRangeMapsToMidpoint ==
  (priceData # Null /\ priceData[1].high24h = priceData[1].low24h) =>
    /\ \A price \in ProbePrices :
         priceToY(Q(price, 1), priceData[1], Q(chartHeight, 1))
           = Q(chartHeight, 2)
    /\ isFinite(Q(chartHeight, 2))
    /\ \A k \in DOMAIN smcOverlays :
         smcOverlays[k].key \in {"pdh", "pdl", "liq-low", "swing-hl", "swing-ll"}
           => smcOverlays[k].top = Q(chartHeight, 2)

\* high24h = low24h = 110 with the PDH and PDL lines on screen, both drawn at
\* the midpoint
C18_Witness ==
  /\ priceData # Null
  /\ priceData[1].high24h = Q(110, 1) /\ priceData[1].low24h = Q(110, 1)
  /\ \E i, j \in DOMAIN smcOverlays :
       /\ smcOverlays[i].key = "pdh" /\ smcOverlays[j].key = "pdl"
       /\ smcOverlays[i].top = Q(chartHeight, 2)
       /\ smcOverlays[j].top = Q(chartHeight, 2)

\* C19: in every state the R:R shown for every box is a finite number, and it
\* is the fallback "0" whenever the distance between the entry edge and the
\* lower edge max(tpY, slY) is zero.
C19_RatioDisplayIsFinite ==
  \A i \in DOMAIN boxes :
    /\ rr(boxes[i])[1] = "string"
    /\ isFinite(rr(boxes[i])[2])
    /\ slDistance(boxes[i]) = 0 => rr(boxes[i]) = Text(Zero)

\* a box whose entry edge lies on its lower edge while its upper zone has a
\* height, shown as R:R 0
C19_Witness ==
  \E i \in DOMAIN boxes :
    /\ slDistance(boxes[i]) = 0
    /\ tpDistance(boxes[i]) > 0
    /\ rr(boxes[i]) = Text(Zero)

\* C20: the upper zone of every box is labelled TP when the box is long and
\* SL when it is short, and the lower zone the opposite.
C20_LabelsFollowIsLong ==
  \A i \in DOMAIN boxes :
    /\ topZoneLabel(boxes[i])[1] = IF isLong(boxes[i]) THEN "TP" ELSE "SL"
    /\ bottomZoneLabel(boxes[i])[1] = IF isLong(boxes[i]) THEN "SL" ELSE "TP"

\* the instances whose listeners receive a pointer-move and pass the guard
ActiveDrags == {i \in DOMAIN comps : comps[i].attached /\ MoveGuardPasses(comps[i])}

\* the box a pointer-move at y gives when it is computed from the drag-start
\* snapshot, the anchor, y and the canvas height alone
FromSnapshot(comp, y) == MovedBox(comp, comp.initialBox[1], chartHeight, y)

\* C21: within one drag the box after a pointer-move at Y depends only on the
\* snapshot captured at pointer-down, the anchor and Y (and the canvas
\* height), so any sequence of pointer-moves ending at Y gives the same box as
\* a single pointer-move to Y.
C21_MoveDependsOnSnapshotOnly ==
  [][\A y \in PointerYs : MouseMove(y) =>
       \A i \in ActiveDrags : boxes'[i] = FromSnapshot(comps[i], y)]_vars

\* every DrawingBox is Idle: no mode, no anchor, no snapshot, no listener
AllIdle == \A i \in DOMAIN comps : comps[i] = IdleComp

\* C22: a pointer-up puts every dragging box in Idle with the mode, the anchor
\* and the start snapshot cleared and changes no box; once every box is Idle a
\* pointer-move at any position changes nothing.
C22_PointerUpEndsDrag ==
  [][/\ MouseUp =>
          /\ \A i \in DOMAIN comps :
               comps[i].isDragging # NoDrag => comps'[i] = IdleComp
          /\ AllIdle'
          /\ boxes' = boxes
     /\ AllIdle => \A y \in PointerYs : DeliverMove(1, y, boxes) = boxes]_vars

\* a drag has resized a box and was ended: every box is Idle again
C22_Witness ==
  /\ ops > 0 /\ boxes # <<>> /\ AllIdle
  /\ \E i \in DOMAIN boxes : boxes[i].tpY # boxes[i].entryY - defaultTPDistance

\* C23: after every pointer-move of a Move drag the dragged box's entryY lies
\* in [20, chartHeight - 20], chartHeight being the canvas height at the time
\* of the event.
C23_MoveKeepsEntryInMargins ==
  [][\A y \in PointerYs : MouseMove(y) =>
       \A i \in ActiveDrags \cap Dragging("move") :
         /\ boxes'[i].entryY >= MinMargin
         /\ boxes'[i].entryY <= chartHeight - MinMargin]_vars

\* the rendered rectangle [min(tpY,slY), max(tpY,slY)] meets [0, H]
OnCanvas(box, H) == tpY(box) <= H /\ slY(box) >= 0

\* C24: after every pointer-move of a Move drag the rendered rectangle of the
\* dragged box still intersects the canvas range [0, chartHeight].
C24_MoveKeepsBoxOnCanvas ==
  [][\A y \in PointerYs : MouseMove(y) =>
       \A i \in ActiveDrags \cap Dragging("move") :
         OnCanvas(boxes'[i], chartHeight)]_vars

\* C25: duplicating a box appends exactly one box that has the source's
\* entryY, tpY, slY and width, the source's x plus 50 and an id no existing box
\* has, selects it, and leaves every existing box unchanged.
C25_DuplicateAddsFreshCopy ==
  [][\A i \in DOMAIN boxes : duplicateBox(i) =>
       LET copy == boxes'[Len(boxes')]
       IN /\ Len(boxes') = Len(boxes) + 1
          /\ copy.entryY = boxes[i].entryY /\ copy.tpY = boxes[i].tpY
          /\ copy.slY = boxes[i].slY /\ copy.width = boxes[i].width
          /\ copy.x = boxes[i].x + DuplicateOffset
          /\ \A k \in DOMAIN boxes : boxes'[k] = boxes[k] /\ copy.id # boxes[k].id
          /\ selectedBoxId' = Some(copy.id)]_vars

SameBut(old, new, i, fields) ==
  /\ DOMAIN new = DOMAIN old
  /\ \A k \in DOMAIN old :
       \A f \in DOMAIN old[k] :
         (k # i \/ f \notin fields) => new[k][f] = old[k][f]

\* C27: a pointer-move of a ResizeTop drag changes only the dragged box's tpY
\* and one of a ResizeBottom drag only its slY; every other field of that box
\* and every field of every other box stay as they are, and no drag changes a
\* box's x, width or id or the number or order of the boxes.
C27_ResizeTouchesOneEdge ==
  [][\A y \in PointerYs : MouseMove(y) =>
       /\ Len(boxes') = Len(boxes)
       /\ \A k \in DOMAIN boxes :
            /\ boxes'[k].x = boxes[k].x
            /\ boxes'[k].width = boxes[k].width
            /\ boxes'[k].id = boxes[k].id
       /\ \A i \in ActiveDrags :
            /\ (ActiveDrags = {i} /\ comps[i].isDragging = "top")
                 => SameBut(boxes, boxes', i, {"tpY"})
            /\ (ActiveDrags = {i} /\ comps[i].isDragging = "bottom")
                 => SameBut(boxes, boxes', i, {"slY"})]_vars

\* the selection is null or names a box of the collection
SelectionValid(sel, bs) == sel = Null \/ \E k \in DOMAIN bs : sel = Some(bs[k].id)

\* C28: in every state the selected-box id is null or the id of a box in the
\* collection, and deleting the selected box or clearing all boxes leaves the
\* selection null.
C28_SelectionNamesABox ==
  [][/\ SelectionValid(selectedBoxId', boxes')
     /\ (\E i \in DOMAIN boxes : deleteBox(i)) => selectedBoxId' = Null
     /\ clearAllBoxes => selectedBoxId' = Null]_vars

\* the selected box was deleted and another box is left, with nothing selected
C28_Witness ==
  /\ selectedBoxId = Null
  /\ boxes # <<>>
  /\ now > Len(boxes)

\* C29: in every state every box has min(tpY, slY) <= entryY <= max(tpY, slY),
\* so the heights of its TP zone and of its SL zone are not negative.
C29_EntryBetweenEdges ==
  \A i \in DOMAIN boxes :
    /\ tpY(boxes[i]) <= entryY(boxes[i])
    /\ entryY(boxes[i]) <= slY(boxes[i])
    /\ topZoneHeight(boxes[i]) >= 0

\* C30: for every entry > 0 and every leverage > 0 the form holds, the
\* liquidation price shown is strictly below the entry for a Long trade and
\* strictly above it for a Short trade, and is not negative.
C30_LiquidationOnLosingSide ==
  LET c == calculations(form)
  IN (c # Null /\ Positive(entry(form)) /\ Positive(parseFloat(form.leverage))) =>
       /\ IF form.tradeType = "long"
          THEN Positive(Sub(entry(form), c[1].liquidationPrice))
          ELSE Positive(Sub(c[1].liquidationPrice, entry(form)))
       /\ ~Positive(Neg(c[1].liquidationPrice))

====
